---- MODULE Spec2Model ----
(***************************************************************************)
(* Model of tether-name-mcp-server (src/src/index.ts): the five tool       *)
(* handlers registered by createServer, the getClient configuration check, *)
(* the process environment they read, and the invocations in flight on     *)
(* one server.  The tether-name SDK (TetherClient) is an external package: *)
(* each delegated call is an opaque step that returns a value of its       *)
(* declared type or throws.                                                *)
(*                                                                         *)
(* Strings that the properties look inside are sequences of tokens: an     *)
(* Error message, an envelope text and a JSON document are token           *)
(* sequences, and "text contains X" is "X is one of its tokens".           *)
(***************************************************************************)
EXTENDS Naturals, Sequences, FiniteSets, TLC

VARIABLES env, calls

vars == <<env, calls>>

\* Number of invocation slots: how many handlers can be in flight at once.
MaxCalls == 2

Calls == 1..MaxCalls

(***************************************************************************)
(* process.env: a variable is unset (<<>>) or holds one string (<<s>>).    *)
(***************************************************************************)
Unset == <<>>

CredentialIdValues == {Unset, <<"">>, <<"my-cred-id">>}

PrivateKeyPathValues == {Unset, <<"">>, <<"/path/to/key.der">>}

BaseUrlValues == {Unset, <<"https://custom.api.tether.name">>}

EnvNames == {"TETHER_CREDENTIAL_ID", "TETHER_PRIVATE_KEY_PATH", "TETHER_BASE_URL"}

EnvValues(name) ==
  CASE name = "TETHER_CREDENTIAL_ID" -> CredentialIdValues
    [] name = "TETHER_PRIVATE_KEY_PATH" -> PrivateKeyPathValues
    [] name = "TETHER_BASE_URL" -> BaseUrlValues

Envs == [TETHER_CREDENTIAL_ID : CredentialIdValues,
         TETHER_PRIVATE_KEY_PATH : PrivateKeyPathValues,
         TETHER_BASE_URL : BaseUrlValues]

\* JavaScript truthiness of process.env.X: undefined and "" are falsy.
Truthy(v) == v # Unset /\ v[1] # ""

\* The JavaScript expression v || d on an environment value.
OrElse(v, d) == IF Truthy(v) THEN v[1] ELSE d

(***************************************************************************)
(* Tool arguments accepted by the input schemas, and what the SDK's calls  *)
(* can do.                                                                 *)
(***************************************************************************)
ChallengeArgs == {"", "test-challenge"}

ProofArgs == {"test-proof"}

\* z.string(): every string passes, the empty one included.
z_string(v) == v \in STRING

sign_challenge_inputSchema(args) == Len(args) = 1 /\ z_string(args[1])

submit_proof_inputSchema(args) ==
  Len(args) = 2 /\ z_string(args[1]) /\ z_string(args[2])

\* A JavaScript object: its properties in insertion order.
Prop(k, v) == [key |-> k, value |-> v]

JsString(s) == [type |-> "string", str |-> s]

JsBoolean(b) == [type |-> "boolean", bool |-> b]

JsObject(props) == [type |-> "object", props |-> props]

\* Values the SDK can throw: an Error with a message, or something else.
Error(msg) == [type |-> "Error", message |-> msg]

SdkThrown ==
  { Error(<<"Challenge request failed: ", "503">>),
    [type |-> "string", str |-> "boom"],
    [type |-> "undefined"] }

\* String(v) for a thrown value that is not an Error.
String(v) ==
  CASE v.type = "string" -> <<v.str>>
    [] v.type = "undefined" -> <<"undefined">>

\* A completion: a call returns a value or throws one.
Return(v) == [kind |-> "return", value |-> v]

Throw(v) == [kind |-> "throw", value |-> v]

VerificationResults ==
  { JsObject(<<Prop("verified", JsBoolean(TRUE)),
               Prop("agentName", JsString("agent-1"))>>),
    JsObject(<<Prop("verified", JsBoolean(FALSE))>>) }

SdkChallenges == {JsString("srv-challenge")}

SdkProofs == {JsString("c2ln")}

\* What a delegated call of the SDK can complete with.
SdkOutcomes(op) ==
  {Throw(t) : t \in SdkThrown} \cup
  CASE op = "verify" -> {Return(r) : r \in VerificationResults}
    [] op = "submitProof" -> {Return(r) : r \in VerificationResults}
    [] op = "requestChallenge" -> {Return(c) : c \in SdkChallenges}
    [] op = "sign" -> {Return(p) : p \in SdkProofs}

(***************************************************************************)
(* JSON.stringify(obj, null, 2) of a flat object with string and boolean   *)
(* properties, as tokens, and the JSON.parse that reads it back.           *)
(***************************************************************************)
JSONvalue(v) ==
  CASE v.type = "string" -> <<"\"", v.str, "\"">>
    [] v.type = "boolean" -> <<IF v.bool THEN "true" ELSE "false">>

RECURSIVE JSONprops(_, _)
JSONprops(obj, i) ==
  IF i > Len(obj) THEN <<>>
  ELSE (IF i > 1 THEN <<",">> ELSE <<>>)
       \o <<"\"", obj[i].key, "\"", ":">>
       \o JSONvalue(obj[i].value)
       \o JSONprops(obj, i + 1)

JSONstringify(obj) == <<"{">> \o JSONprops(obj, 1) \o <<"}">>

\* Reads the properties of a document from token i on: a sequence of
\* <<key, kind, token>> in document order.
RECURSIVE JSONparseFrom(_, _)
JSONparseFrom(text, i) ==
  IF i > Len(text) \/ text[i] = "}" THEN <<>>
  ELSE IF text[i] = "," \/ text[i] = "{" THEN JSONparseFrom(text, i + 1)
  ELSE \* text[i] = "\"" opens a key: " key " : value
       LET key == text[i + 1]
           at == i + 4
       IN IF text[at] = "\""
          THEN <<[key |-> key, type |-> "string", token |-> text[at + 1]]>>
               \o JSONparseFrom(text, at + 3)
          ELSE <<[key |-> key, type |-> "boolean", token |-> text[at]]>>
               \o JSONparseFrom(text, at + 1)

JSONparse(text) == JSONparseFrom(text, 1)

HasField(doc, k) == \E j \in DOMAIN doc : doc[j].key = k

Field(doc, k) == doc[CHOOSE j \in DOMAIN doc : doc[j].key = k]

Contains(text, token) == \E j \in DOMAIN text : text[j] = token

(***************************************************************************)
(* getClient: reads the two variables, throws on the first one missing,    *)
(* otherwise constructs the SDK client from the two values read.  `trace`  *)
(* lists what was done, in order.                                          *)
(***************************************************************************)
Event(op, args) == [op |-> op, args |-> args]

TetherClient(credentialId, privateKeyPath) ==
  [credentialId |-> credentialId, privateKeyPath |-> privateKeyPath]

\* getClient with the two checks in the other order.
getClient_keyPathFirst(e) ==
  LET credentialId == e.TETHER_CREDENTIAL_ID
      privateKeyPath == e.TETHER_PRIVATE_KEY_PATH
  IN IF ~Truthy(privateKeyPath)
     THEN [kind |-> "throw",
           value |-> Error(<<"TETHER_PRIVATE_KEY_PATH",
                             " environment variable is required">>),
           trace |-> <<>>]
     ELSE IF ~Truthy(credentialId)
     THEN [kind |-> "throw",
           value |-> Error(<<"TETHER_CREDENTIAL_ID",
                             " environment variable is required">>),
           trace |-> <<Event("checked", <<"TETHER_PRIVATE_KEY_PATH">>)>>]
     ELSE [kind |-> "return",
           value |-> TetherClient(credentialId[1], privateKeyPath[1]),
           trace |-> <<Event("checked", <<"TETHER_PRIVATE_KEY_PATH">>),
                       Event("checked", <<"TETHER_CREDENTIAL_ID">>),
                       Event("new TetherClient",
                             <<credentialId[1], privateKeyPath[1]>>)>>]

\* getClient whose second throw repeats the first one's message.
getClient_repeatedMessage(e) ==
  LET credentialId == e.TETHER_CREDENTIAL_ID
      privateKeyPath == e.TETHER_PRIVATE_KEY_PATH
  IN IF ~Truthy(credentialId) \/ ~Truthy(privateKeyPath)
     THEN [kind |-> "throw",
           value |-> Error(<<"TETHER_CREDENTIAL_ID",
                             " environment variable is required">>),
           trace |-> <<>>]
     ELSE [kind |-> "return",
           value |-> TetherClient(credentialId[1], privateKeyPath[1]),
           trace |-> <<Event("checked", <<"TETHER_CREDENTIAL_ID">>),
                       Event("checked", <<"TETHER_PRIVATE_KEY_PATH">>),
                       Event("new TetherClient",
                             <<credentialId[1], privateKeyPath[1]>>)>>]

\* getClient that constructs the client before it checks the key path.
getClient_checkAfterConstruct(e) ==
  LET credentialId == e.TETHER_CREDENTIAL_ID
      privateKeyPath == e.TETHER_PRIVATE_KEY_PATH
  IN IF ~Truthy(credentialId)
     THEN [kind |-> "throw",
           value |-> Error(<<"TETHER_CREDENTIAL_ID",
                             " environment variable is required">>),
           trace |-> <<>>]
     ELSE IF ~Truthy(privateKeyPath)
     THEN [kind |-> "throw",
           value |-> Error(<<"TETHER_PRIVATE_KEY_PATH",
                             " environment variable is required">>),
           trace |-> <<Event("checked", <<"TETHER_CREDENTIAL_ID">>),
                       Event("new TetherClient",
                             <<credentialId[1], OrElse(privateKeyPath, "")>>)>>]
     ELSE [kind |-> "return",
           value |-> TetherClient(credentialId[1], privateKeyPath[1]),
           trace |-> <<Event("checked", <<"TETHER_CREDENTIAL_ID">>),
                       Event("new TetherClient",
                             <<credentialId[1], privateKeyPath[1]>>),
                       Event("checked", <<"TETHER_PRIVATE_KEY_PATH">>)>>]

\* getClient that keeps one client for the server and hands it to every
\* invocation while some invocation still holds it.
getClient_cachedClient(e) ==
  IF \E j \in Calls : calls[j].pc = "awaiting"
  THEN [kind |-> "return",
        value |-> calls[CHOOSE j \in Calls : calls[j].pc = "awaiting"].client[1],
        trace |-> <<>>]
  ELSE LET credentialId == e.TETHER_CREDENTIAL_ID
            privateKeyPath == e.TETHER_PRIVATE_KEY_PATH
       IN IF ~Truthy(credentialId)
          THEN [kind |-> "throw",
                value |-> Error(<<"TETHER_CREDENTIAL_ID",
                                  " environment variable is required">>),
                trace |-> <<>>]
          ELSE IF ~Truthy(privateKeyPath)
          THEN [kind |-> "throw",
                value |-> Error(<<"TETHER_PRIVATE_KEY_PATH",
                                  " environment variable is required">>),
                trace |-> <<Event("checked", <<"TETHER_CREDENTIAL_ID">>)>>]
          ELSE [kind |-> "return",
                value |-> TetherClient(credentialId[1], privateKeyPath[1]),
                trace |-> <<Event("checked", <<"TETHER_CREDENTIAL_ID">>),
                            Event("checked", <<"TETHER_PRIVATE_KEY_PATH">>),
                            Event("new TetherClient",
                                  <<credentialId[1], privateKeyPath[1]>>)>>]

getClient(e) ==
  LET credentialId == e.TETHER_CREDENTIAL_ID
      privateKeyPath == e.TETHER_PRIVATE_KEY_PATH
  IN IF ~Truthy(credentialId)
     THEN [kind |-> "throw",
           value |-> Error(<<"TETHER_CREDENTIAL_ID",
                             " environment variable is required">>),
           trace |-> <<>>]
     ELSE IF ~Truthy(privateKeyPath)
     THEN [kind |-> "throw",
           value |-> Error(<<"TETHER_PRIVATE_KEY_PATH",
                             " environment variable is required">>),
           trace |-> <<Event("checked", <<"TETHER_CREDENTIAL_ID">>)>>]
     ELSE [kind |-> "return",
           value |-> TetherClient(credentialId[1], privateKeyPath[1]),
           trace |-> <<Event("checked", <<"TETHER_CREDENTIAL_ID">>),
                       Event("checked", <<"TETHER_PRIVATE_KEY_PATH">>),
                       Event("new TetherClient",
                             <<credentialId[1], privateKeyPath[1]>>)>>]

(***************************************************************************)
(* The envelopes and the try/catch every delegating handler is wrapped in. *)
(***************************************************************************)
\* error instanceof Error ? error.message : String(error)
ErrorMessage(error) ==
  IF error.type = "Error" THEN error.message ELSE String(error)

ErrorEnvelope(prefix, error) ==
  [content |-> <<[type |-> "text", text |-> <<prefix>> \o ErrorMessage(error)]>>,
   isError |-> TRUE]

SuccessEnvelope(obj) ==
  [content |-> <<[type |-> "text", text |-> JSONstringify(obj)]>>]

\* A catch that handles Error instances only and rethrows anything else.
TryCatch_rethrowsNonError(prefix, body) ==
  IF body.kind = "throw" /\ body.value.type = "Error"
  THEN Return(ErrorEnvelope(prefix, body.value))
  ELSE body

\* try { body } catch (error) { return the error envelope }.
TryCatch(prefix, body) ==
  IF body.kind = "throw" THEN Return(ErrorEnvelope(prefix, body.value))
  ELSE body

Prefix(tool) ==
  CASE tool = "verify_identity" -> "Verification failed: "
    [] tool = "request_challenge" -> "Failed to request challenge: "
    [] tool = "sign_challenge" -> "Failed to sign challenge: "
    [] tool = "submit_proof" -> "Failed to submit proof: "

\* The object each handler serializes from what its delegated call returned.
ResultObject(tool, value) ==
  CASE tool = "verify_identity" -> value.props
    [] tool = "request_challenge" -> <<Prop("challenge", value)>>
    [] tool = "sign_challenge" -> <<Prop("proof", value)>>
    [] tool = "submit_proof" -> value.props

\* The SDK method a tool delegates to.
Delegate(tool) ==
  CASE tool = "verify_identity" -> "verify"
    [] tool = "request_challenge" -> "requestChallenge"
    [] tool = "sign_challenge" -> "sign"
    [] tool = "submit_proof" -> "submitProof"

DelegatingTools ==
  {"verify_identity", "request_challenge", "sign_challenge", "submit_proof"}

DelegatedOps == {"verify", "requestChallenge", "sign", "submitProof"}

\* get_credential_info with configured computed by || instead of &&.
get_credential_info_handler_eitherSet(e) ==
  LET credentialId == e.TETHER_CREDENTIAL_ID
      privateKeyPath == e.TETHER_PRIVATE_KEY_PATH
  IN Return(SuccessEnvelope(
       <<Prop("credentialId", JsString(OrElse(credentialId, "(not set)"))),
         Prop("privateKeyPath", JsString(OrElse(privateKeyPath, "(not set)"))),
         Prop("configured",
              JsBoolean(Truthy(credentialId) \/ Truthy(privateKeyPath)))>>))

\* The get_credential_info handler: no try/catch, no client.
get_credential_info_handler(e) ==
  LET credentialId == e.TETHER_CREDENTIAL_ID
      privateKeyPath == e.TETHER_PRIVATE_KEY_PATH
  IN Return(SuccessEnvelope(
       <<Prop("credentialId", JsString(OrElse(credentialId, "(not set)"))),
         Prop("privateKeyPath", JsString(OrElse(privateKeyPath, "(not set)"))),
         Prop("configured",
              JsBoolean(Truthy(credentialId) /\ Truthy(privateKeyPath)))>>))

(***************************************************************************)
(* Invocations.  A handler runs without interruption up to its first       *)
(* await; an awaiting handler resumes when its delegated call settles.     *)
(***************************************************************************)
Idle ==
  [pc |-> "idle", tool |-> "", args |-> <<>>, entry |-> <<>>, client |-> <<>>,
   trace |-> <<>>, outcome |-> <<>>, result |-> <<>>]

\* The handler's promise settles: fulfilled with an envelope, or rejected.
Settled(c, completion) ==
  [c EXCEPT !.pc = IF completion.kind = "return" THEN "done" ELSE "rejected",
            !.client = <<>>,
            !.result = <<completion.value>>]

\* const client = getClient(); then the delegated call is started.
Started(tool, args, e) ==
  LET g == getClient(e)
      c == [Idle EXCEPT !.tool = tool, !.args = args, !.entry = <<e>>,
                        !.trace = g.trace]
  IN IF g.kind = "throw"
     THEN Settled(c, TryCatch(Prefix(tool), Throw(g.value)))
     ELSE [c EXCEPT !.pc = "awaiting",
                    !.client = <<g.value>>,
                    !.trace = g.trace \o <<Event(Delegate(tool), args)>>]

\* The delegated call completed with o; the rest of the try block runs.
Resumed(c, o) ==
  Settled([c EXCEPT !.outcome = <<o>>],
          TryCatch(Prefix(c.tool),
                   IF o.kind = "throw" THEN o
                   ELSE Return(SuccessEnvelope(ResultObject(c.tool, o.value)))))

\* An envelope a handler returned is sent by the continuation of the handler's
\* promise, before the event loop dispatches another request, another
\* settlement or a change of the environment.
Dispatching == \A j \in Calls : calls[j].pc # "done"

Init ==
  /\ env \in Envs
  /\ calls = [i \in Calls |-> Idle]

\* The environment of the process changes (the tests' setupEnv / restore).
SetEnv(name, v) ==
  /\ Dispatching
  /\ env[name] # v
  /\ env' = [env EXCEPT ![name] = v]
  /\ UNCHANGED calls

verify_identity(i) ==
  /\ Dispatching
  /\ calls[i].pc = "idle"
  /\ calls' = [calls EXCEPT ![i] = Started("verify_identity", <<>>, env)]
  /\ UNCHANGED env

request_challenge(i) ==
  /\ Dispatching
  /\ calls[i].pc = "idle"
  /\ calls' = [calls EXCEPT ![i] = Started("request_challenge", <<>>, env)]
  /\ UNCHANGED env

submit_proof(i, challenge, proof) ==
  /\ Dispatching
  /\ calls[i].pc = "idle"
  /\ submit_proof_inputSchema(<<challenge, proof>>)
  /\ calls' = [calls EXCEPT
                 ![i] = Started("submit_proof", <<challenge, proof>>, env)]
  /\ UNCHANGED env

\* client.sign is synchronous: the handler runs to its end in one step.
sign_challenge(i, challenge) ==
  /\ Dispatching
  /\ calls[i].pc = "idle"
  /\ sign_challenge_inputSchema(<<challenge>>)
  /\ LET c == Started("sign_challenge", <<challenge>>, env)
     IN IF c.pc = "awaiting"
        THEN \E o \in SdkOutcomes("sign") :
               calls' = [calls EXCEPT ![i] = Resumed(c, o)]
        ELSE calls' = [calls EXCEPT ![i] = c]
  /\ UNCHANGED env

get_credential_info(i) ==
  /\ Dispatching
  /\ calls[i].pc = "idle"
  /\ calls' = [calls EXCEPT
                 ![i] = Settled([Idle EXCEPT !.tool = "get_credential_info",
                                             !.entry = <<env>>],
                                get_credential_info_handler(env))]
  /\ UNCHANGED env

\* An awaited SDK promise settles and its handler continues.
Resume(i) ==
  /\ Dispatching
  /\ calls[i].pc = "awaiting"
  /\ \E o \in SdkOutcomes(Delegate(calls[i].tool)) :
       calls' = [calls EXCEPT ![i] = Resumed(calls[i], o)]
  /\ UNCHANGED env

\* The server sends the envelope to the caller; the invocation is over.
Respond(i) ==
  /\ calls[i].pc = "done"
  /\ calls' = [calls EXCEPT ![i] = Idle]
  /\ UNCHANGED env

Next ==
  \/ \E name \in EnvNames : \E v \in EnvValues(name) : SetEnv(name, v)
  \/ \E i \in Calls : verify_identity(i)
  \/ \E i \in Calls : request_challenge(i)
  \/ \E i \in Calls : \E ch \in ChallengeArgs : sign_challenge(i, ch)
  \/ \E i \in Calls : \E ch \in ChallengeArgs : \E pr \in ProofArgs :
       submit_proof(i, ch, pr)
  \/ \E i \in Calls : get_credential_info(i)
  \/ \E i \in Calls : Resume(i)
  \/ \E i \in Calls : Respond(i)

Spec == Init /\ [][Next]_vars

TypeOK ==
  /\ env \in Envs
  /\ \A i \in Calls :
       /\ calls[i].pc \in {"idle", "awaiting", "done", "rejected"}
       /\ calls[i].pc = "idle" => calls[i] = Idle

(***************************************************************************)
(* Vocabulary of the properties.                                           *)
(***************************************************************************)
\* A configuration variable is missing when it is unset or empty.
Missing(v) == v \in {<<>>, <<"">>}

EntryEnv(i) == calls[i].entry[1]

Envelope(i) == calls[i].result[1]

Text(i) == Envelope(i).content[1].text

Running(i) == calls[i].pc # "idle"

Returned(i) == calls[i].pc = "done"

WellFormed(r) ==
  /\ DOMAIN r \in {{"content"}, {"content", "isError"}}
  /\ Len(r.content) = 1
  /\ DOMAIN r.content[1] = {"type", "text"}
  /\ r.content[1].type = "text"
  /\ Len(r.content[1].text) > 0

IsError(i) == "isError" \in DOMAIN Envelope(i) /\ Envelope(i).isError = TRUE

NoIsError(i) == "isError" \notin DOMAIN Envelope(i)

HasEvent(i, ops) == \E k \in DOMAIN calls[i].trace : calls[i].trace[k].op \in ops

\* C1: credential ID unset or empty => each delegating tool answers with an
\* error envelope whose text names TETHER_CREDENTIAL_ID, and
\* get_credential_info answers with an envelope without isError.
C1_MissingCredentialIdNamed ==
  \A i \in Calls :
    (Running(i) /\ Missing(EntryEnv(i).TETHER_CREDENTIAL_ID)) =>
      /\ Returned(i)
      /\ calls[i].tool \in DelegatingTools =>
           IsError(i) /\ Contains(Text(i), "TETHER_CREDENTIAL_ID")
      /\ calls[i].tool = "get_credential_info" => NoIsError(i)

C1_Witness ==
  \E i, j \in Calls :
    /\ Returned(i) /\ calls[i].tool = "sign_challenge"
    /\ EntryEnv(i).TETHER_CREDENTIAL_ID = <<"">>
    /\ Missing(EntryEnv(i).TETHER_PRIVATE_KEY_PATH)
    /\ IsError(i)
    /\ calls[j].pc = "awaiting"

\* C2 as claimed: private key path unset or empty, whatever the credential ID
\* => each delegating tool answers with an error envelope whose text names
\* TETHER_PRIVATE_KEY_PATH.
C2_MissingKeyPathAlwaysNamed ==
  \A i \in Calls :
    (Running(i) /\ calls[i].tool \in DelegatingTools
       /\ Missing(EntryEnv(i).TETHER_PRIVATE_KEY_PATH)) =>
      Returned(i) /\ IsError(i) /\ Contains(Text(i), "TETHER_PRIVATE_KEY_PATH")

\* C2 amended: private key path unset or empty => each delegating tool answers
\* with an error envelope; its text names TETHER_PRIVATE_KEY_PATH when the
\* credential ID is configured, and names TETHER_CREDENTIAL_ID alone when the
\* credential ID is missing too.
C2_FirstMissingVariableNamed ==
  \A i \in Calls :
    (Running(i) /\ calls[i].tool \in DelegatingTools
       /\ Missing(EntryEnv(i).TETHER_PRIVATE_KEY_PATH)) =>
      /\ Returned(i) /\ IsError(i)
      /\ IF Missing(EntryEnv(i).TETHER_CREDENTIAL_ID)
         THEN /\ Contains(Text(i), "TETHER_CREDENTIAL_ID")
              /\ ~Contains(Text(i), "TETHER_PRIVATE_KEY_PATH")
         ELSE /\ Contains(Text(i), "TETHER_PRIVATE_KEY_PATH")
              /\ ~Contains(Text(i), "TETHER_CREDENTIAL_ID")

C2_Witness ==
  \E i \in Calls :
    /\ Returned(i) /\ calls[i].tool = "verify_identity"
    /\ EntryEnv(i).TETHER_CREDENTIAL_ID = <<"my-cred-id">>
    /\ EntryEnv(i).TETHER_PRIVATE_KEY_PATH = Unset
    /\ IsError(i)

\* C3 as claimed: the result of get_credential_info carries baseUrl, equal to
\* TETHER_BASE_URL when set and to "https://api.tether.name" otherwise.
C3_BaseUrlReported ==
  \A i \in Calls :
    (Returned(i) /\ calls[i].tool = "get_credential_info") =>
      LET doc == JSONparse(Text(i))
          baseUrl == EntryEnv(i).TETHER_BASE_URL
      IN /\ HasField(doc, "baseUrl")
         /\ Field(doc, "baseUrl").type = "string"
         /\ Field(doc, "baseUrl").token =
              (IF baseUrl = Unset THEN "https://api.tether.name" ELSE baseUrl[1])

\* C4: get_credential_info never fails; credentialId and privateKeyPath are
\* the configured values or "(not set)"; configured is true iff both are
\* non-empty.
C4_CredentialInfoFaithful ==
  \A i \in Calls :
    (Running(i) /\ calls[i].tool = "get_credential_info") =>
      /\ Returned(i) /\ WellFormed(Envelope(i)) /\ NoIsError(i)
      /\ LET doc == JSONparse(Text(i))
             cred == EntryEnv(i).TETHER_CREDENTIAL_ID
             path == EntryEnv(i).TETHER_PRIVATE_KEY_PATH
         IN /\ HasField(doc, "credentialId")
            /\ Field(doc, "credentialId").type = "string"
            /\ Field(doc, "credentialId").token =
                 (IF Missing(cred) THEN "(not set)" ELSE cred[1])
            /\ HasField(doc, "privateKeyPath")
            /\ Field(doc, "privateKeyPath").type = "string"
            /\ Field(doc, "privateKeyPath").token =
                 (IF Missing(path) THEN "(not set)" ELSE path[1])
            /\ HasField(doc, "configured")
            /\ Field(doc, "configured").type = "boolean"
            /\ (Field(doc, "configured").token = "true")
                 <=> (~Missing(cred) /\ ~Missing(path))
            /\ Field(doc, "configured").token \in {"true", "false"}

C4_Witness ==
  \E i \in Calls :
    /\ Returned(i) /\ calls[i].tool = "get_credential_info"
    /\ EntryEnv(i).TETHER_CREDENTIAL_ID = <<"my-cred-id">>
    /\ EntryEnv(i).TETHER_PRIVATE_KEY_PATH = <<"">>
    /\ Field(JSONparse(Text(i)), "configured").token = "false"

\* C5 as claimed: sign_challenge with the empty challenge under a complete
\* configuration answers with an error, and the signer is never invoked on it.
C5_EmptyChallengeRejected ==
  \A i \in Calls :
    (Running(i) /\ calls[i].tool = "sign_challenge" /\ calls[i].args = <<"">>
       /\ ~Missing(EntryEnv(i).TETHER_CREDENTIAL_ID)
       /\ ~Missing(EntryEnv(i).TETHER_PRIVATE_KEY_PATH)) =>
      /\ Returned(i) /\ IsError(i)
      /\ ~HasEvent(i, {"sign"})

\* The document that the serialization of a flat object parses back to.
DocOf(props) ==
  [k \in DOMAIN props |->
     [key |-> props[k].key,
      type |-> props[k].value.type,
      token |-> IF props[k].value.type = "string" THEN props[k].value.str
                ELSE IF props[k].value.bool THEN "true" ELSE "false"]]

\* The message of a thrown failure: an Error's message, else the value as text.
FailureText(t) ==
  CASE t.type = "Error" -> t.message
    [] t.type = "string" -> <<t.str>>
    [] t.type = "undefined" -> <<"undefined">>

EndsWith(text, m) ==
  Len(text) >= Len(m) /\ SubSeq(text, Len(text) - Len(m) + 1, Len(text)) = m

\* The object a tool is to serialize from the value its SDK call returned.
SerializedResult(tool, v) ==
  CASE tool \in {"verify_identity", "submit_proof"} -> DocOf(v.props)
    [] tool = "request_challenge" ->
         <<[key |-> "challenge", type |-> "string", token |-> v.str]>>
    [] tool = "sign_challenge" ->
         <<[key |-> "proof", type |-> "string", token |-> v.str]>>

\* C7: every invocation ends in exactly one well-formed envelope, whatever the
\* delegated call does: a returned value gives its JSON serialization with no
\* isError, a thrown value (Error or not) gives isError = true with the
\* failure's message in the text, and no handler's promise is rejected.
C7_AlwaysOneEnvelope ==
  \A i \in Calls :
    /\ calls[i].pc # "rejected"
    /\ calls[i].pc = "awaiting" => calls[i].result = <<>>
    /\ Returned(i) =>
         /\ Len(calls[i].result) = 1
         /\ WellFormed(Envelope(i))
         /\ calls[i].tool = "get_credential_info" => NoIsError(i)
         /\ (calls[i].tool \in DelegatingTools /\ calls[i].outcome = <<>>) =>
              /\ IsError(i)
              /\ \E name \in {"TETHER_CREDENTIAL_ID", "TETHER_PRIVATE_KEY_PATH"} :
                   EndsWith(Text(i), <<name, " environment variable is required">>)
         /\ (calls[i].tool \in DelegatingTools /\ calls[i].outcome # <<>>) =>
              LET o == calls[i].outcome[1]
              IN IF o.kind = "return"
                 THEN /\ NoIsError(i)
                      /\ JSONparse(Text(i)) = SerializedResult(calls[i].tool, o.value)
                 ELSE /\ IsError(i)
                      /\ EndsWith(Text(i), FailureText(o.value))
                      /\ Len(Text(i)) = Len(FailureText(o.value)) + 1

C7_Witness ==
  \E i, j \in Calls :
    /\ Returned(i) /\ calls[i].tool = "submit_proof"
    /\ calls[i].outcome = <<Throw([type |-> "undefined"])>>
    /\ IsError(i) /\ Text(i) = <<"Failed to submit proof: ", "undefined">>
    /\ calls[j].pc = "awaiting" /\ calls[j].tool = "verify_identity"

Complete(e) ==
  ~Missing(e.TETHER_CREDENTIAL_ID) /\ ~Missing(e.TETHER_PRIVATE_KEY_PATH)

ClientOrDelegated == DelegatedOps \cup {"new TetherClient"}

\* C9: validation precedes every delegated action.  With an incomplete
\* configuration no client is constructed and no SDK call occurs in that
\* invocation; every client construction and SDK call comes after both
\* variables were checked in that invocation, and the client is constructed
\* before the SDK call.
C9_ValidationFirst ==
  \A i \in Calls :
    Running(i) =>
      LET tr == calls[i].trace
      IN /\ ~Complete(EntryEnv(i)) =>
              /\ ~HasEvent(i, ClientOrDelegated)
              /\ calls[i].client = <<>>
              /\ calls[i].outcome = <<>>
         /\ \A k \in DOMAIN tr :
              tr[k].op \in ClientOrDelegated =>
                /\ Complete(EntryEnv(i))
                /\ \E a \in 1..(k - 1) :
                     tr[a] = Event("checked", <<"TETHER_CREDENTIAL_ID">>)
                /\ \E b \in 1..(k - 1) :
                     tr[b] = Event("checked", <<"TETHER_PRIVATE_KEY_PATH">>)
                /\ tr[k].op \in DelegatedOps =>
                     \E c \in 1..(k - 1) : tr[c].op = "new TetherClient"
         /\ (calls[i].client # <<>> \/ calls[i].outcome # <<>>) =>
              HasEvent(i, DelegatedOps)

C9_Witness ==
  \E i, j \in Calls :
    /\ calls[i].pc = "awaiting" /\ calls[i].tool = "request_challenge"
    /\ HasEvent(i, {"requestChallenge"})
    /\ Returned(j) /\ calls[j].tool = "submit_proof"
    /\ EntryEnv(j).TETHER_CREDENTIAL_ID = <<"my-cred-id">>
    /\ EntryEnv(j).TETHER_PRIVATE_KEY_PATH = <<"">>
    /\ calls[j].trace = <<Event("checked", <<"TETHER_CREDENTIAL_ID">>)>>

\* The envelope an invocation produces when it runs alone, given the
\* environment at its entry, its arguments and what its delegated call did.
IsolatedResult(c) ==
  IF c.tool = "get_credential_info"
  THEN <<get_credential_info_handler(c.entry[1]).value>>
  ELSE LET s == Started(c.tool, c.args, c.entry[1])
       IN IF s.pc # "awaiting" THEN s.result
          ELSE IF c.outcome = <<>> THEN <<>>
          ELSE Resumed(s, c.outcome[1]).result

C10_Step ==
  /\ \A i \in Calls :
       calls'[i] # calls[i] =>
         /\ env' = env
         /\ \A j \in Calls \ {i} : calls'[j] = calls[j]
  /\ \A i \in Calls :
       calls[i].pc = "awaiting" =>
         /\ calls'[i].tool = calls[i].tool
         /\ calls'[i].args = calls[i].args
         /\ calls'[i].entry = calls[i].entry
         /\ calls'[i].pc = "awaiting" => calls'[i] = calls[i]
  /\ \A i \in Calls :
       calls'[i].pc = "awaiting" =>
         /\ Complete(calls'[i].entry[1])
         /\ calls'[i].client =
              <<TetherClient(calls'[i].entry[1].TETHER_CREDENTIAL_ID[1],
                             calls'[i].entry[1].TETHER_PRIVATE_KEY_PATH[1])>>
  /\ \A i \in Calls :
       calls'[i].pc \in {"done", "rejected"} =>
         calls'[i].result = IsolatedResult(calls'[i])

\* C10: invocations are isolated under interleaving.  A step of one
\* invocation changes no other invocation and a change of the environment
\* changes none; an invocation in flight keeps the configuration it read at
\* its entry; and its envelope is the one it would produce running alone
\* with its entry environment, its arguments and its delegated call's outcome.
C10_Isolation == [][C10_Step]_vars

C10_Witness ==
  \E i, j \in Calls :
    /\ i # j
    /\ Returned(i) /\ calls[i].tool = "verify_identity"
    /\ calls[i].outcome # <<>> /\ NoIsError(i)
    /\ env.TETHER_CREDENTIAL_ID = Unset
    /\ EntryEnv(i).TETHER_CREDENTIAL_ID = <<"my-cred-id">>
    /\ calls[j].pc = "awaiting"

====
